---- MODULE Spec2Model ----
\* A model of the Bloom filter of src/src/bloomfilter/lib.rs: the Bloom
\* structure (bitmap, bitmap_bits, k_num, sips), its constructors and its
\* set / check / check_and_set / clear / to_bytes operations, with the
\* 64-bit double hashing of bloom_hash computed limb by limb.
EXTENDS Integers, Sequences, FiniteSets, TLC

\* ------------------------------------------------------------------ bounds
\* Largest bitmap_size (bytes) passed to Bloom::new.
MaxBitmapSize == 2
\* Largest items_count passed to Bloom::new and Bloom::new_for_fp_rate.
MaxItemsCount == 3
\* Longest byte slice passed to Bloom::from_bytes.
MaxBytesLen == 1
\* Largest k_num passed to Bloom::from_bytes.
MaxKNum == 3

\* ------------------------------------------------------------------ u64
\* A u64 is four 16-bit limbs, most significant first.
Limb == 65536

\* 0xffffffffffffffc5, the modulus of bloom_hash.
HashPrime == <<65535, 65535, 65535, 65477>>

\* a < b on u64 values.
U64Less(a, b) ==
    \E i \in 1..4 : a[i] < b[i] /\ \A j \in 1..(i - 1) : a[j] = b[j]

\* u64::wrapping_add: addition modulo 2^64.
wrapping_add(a, b) ==
    LET s4 == a[4] + b[4]
        s3 == a[3] + b[3] + (s4 \div Limb)
        s2 == a[2] + b[2] + (s3 \div Limb)
        s1 == a[1] + b[1] + (s2 \div Limb)
    IN  <<s1 % Limb, s2 % Limb, s3 % Limb, s4 % Limb>>

\* (k as u64).wrapping_mul(h): k is a round index, far below one limb.
wrapping_mul(k, h) ==
    LET p4 == k * h[4]
        p3 == k * h[3] + (p4 \div Limb)
        p2 == k * h[2] + (p3 \div Limb)
        p1 == k * h[1] + (p2 \div Limb)
    IN  <<p1 % Limb, p2 % Limb, p3 % Limb, p4 % Limb>>

\* a - b on u64 values with a >= b.
U64Sub(a, b) ==
    LET d4 == a[4] - b[4]
        w4 == IF d4 < 0 THEN 1 ELSE 0
        d3 == a[3] - b[3] - w4
        w3 == IF d3 < 0 THEN 1 ELSE 0
        d2 == a[2] - b[2] - w3
        w2 == IF d2 < 0 THEN 1 ELSE 0
        d1 == a[1] - b[1] - w2
    IN  <<d1 % Limb, d2 % Limb, d3 % Limb, d4 % Limb>>

\* a % 0xffffffffffffffc5: the modulus exceeds 2^63, so the remainder is a
\* itself or a less the modulus.
RemHashPrime(a) ==
    IF U64Less(a, HashPrime) THEN a ELSE U64Sub(a, HashPrime)

\* a % m for a small non-zero m (the bitmap length), by Horner's rule.
U64Rem(a, m) ==
    LET r1 == a[1] % m
        r2 == (r1 * Limb + a[2]) % m
        r3 == (r2 * Limb + a[3]) % m
    IN  (r3 * Limb + a[4]) % m

\* ------------------------------------------------------------------ SipHasher
\* A SipHasher is its key pair <<k0, k1>>.  SipHasher::new() has both keys 0.
ZeroKey == <<0, 0>>
OtherKey == <<1, 0>>
SipKeys == {ZeroKey, OtherKey}

\* The items hashed, and the 64-bit digests SipHash-2-4 may give them.
Items == {"a", "b"}

HashVals ==
    { <<0, 0, 0, 5>>,
      <<32768, 0, 0, 3>>,
      <<65535, 65535, 65535, 65535>> }

\* Another key gives another digest: the next of HashVals.
Rekeyed(hash) ==
    CASE hash = <<0, 0, 0, 5>> -> <<32768, 0, 0, 3>>
      [] hash = <<32768, 0, 0, 3>> -> <<65535, 65535, 65535, 65535>>
      [] OTHER -> <<0, 0, 0, 5>>

VARIABLES
    digest,     \* the keyed hash: digest[key][item], fixed for the whole run
    bloom,      \* the filter under test (NoBloom before construction)
    orig,       \* the filter a from_bytes call was fed from, until the next call
    op,         \* the last call made
    arg,        \* its arguments
    ret,        \* its return value
    aborted,    \* TRUE when the last call panicked
    built,      \* the constructor that made bloom
    phase,      \* "none", "fresh", "used" (set since construction or clear), "cleared"
    added       \* the items passed to set since construction or the last clear

vars == <<digest, bloom, orig, op, arg, ret, aborted, built, phase, added>>

\* item.hash(sip); sip.finish(): stable for identical (key, item).
SipHash(sip, item) == digest[sip][item]

sip_new == ZeroKey

\* ------------------------------------------------------------------ BitVec
\* A BitVec is a sequence of BOOLEAN; bit i (from 0) is element i + 1.
BitVecFromElem(nbits, bit) == [i \in 1..nbits |-> bit]

\* Bit j (0 = most significant) of a byte.
ByteBit(byte, j) == ((byte \div (2 ^ (7 - j))) % 2) = 1

BitVecFromBytes(bytes) ==
    [i \in 1..(8 * Len(bytes)) |-> ByteBit(bytes[((i - 1) \div 8) + 1], (i - 1) % 8)]

RECURSIVE PackByte(_, _, _)
PackByte(bitmap, first, j) ==
    IF j > 7 THEN 0
    ELSE (IF first + j <= Len(bitmap) /\ bitmap[first + j] THEN 2 ^ (7 - j) ELSE 0)
         + PackByte(bitmap, first, j + 1)

\* Packs least significant bit first.
RECURSIVE PackByteLsb(_, _, _)
PackByteLsb(bitmap, first, j) ==
    IF j > 7 THEN 0
    ELSE (IF first + j <= Len(bitmap) /\ bitmap[first + j] THEN 2 ^ j ELSE 0)
         + PackByteLsb(bitmap, first, j + 1)

BitVecToBytesLsb(bitmap) ==
    [b \in 1..((Len(bitmap) + 7) \div 8) |-> PackByteLsb(bitmap, 8 * (b - 1) + 1, 0)]

BitVecToBytes(bitmap) ==
    [b \in 1..((Len(bitmap) + 7) \div 8) |-> PackByte(bitmap, 8 * (b - 1) + 1, 0)]

BitVecInRange(bitmap, i) == i >= 0 /\ i < Len(bitmap)

\* A set that toggles the bit instead of storing the value.
BitVecFlip(bitmap, i, bit) == [bitmap EXCEPT ![i + 1] = ~@]

\* A set that stores the value one bit further on.
BitVecSetNext(bitmap, i, bit) ==
    IF i + 2 <= Len(bitmap) THEN [bitmap EXCEPT ![i + 2] = bit]
    ELSE [bitmap EXCEPT ![1] = bit]

BitVecSet(bitmap, i, bit) == [bitmap EXCEPT ![i + 1] = bit]

BitVecGet(bitmap, i) == bitmap[i + 1]

\* A clear that empties the vector, as Vec::clear does.
BitVecTruncate(bitmap) == <<>>

BitVecClear(bitmap) == [i \in DOMAIN bitmap |-> FALSE]

\* ------------------------------------------------------------------ Bloom
NoBloom == [bitmap |-> <<>>, bitmap_bits |-> 0, k_num |-> 0, sips |-> <<>>]

\* ln 2 and 8 * ln(2)^2 in millionths.
Ln2Micro == 693147
Ln2Sq8Micro == 3843624

CeilDiv(a, b) == (a + b - 1) \div b

\* ceil(m / n * ln 2) as u32, at least 1.
optimal_k_num(bitmap_bits, items_count) ==
    LET k_num == CeilDiv(bitmap_bits * Ln2Micro, items_count * 1000000)
    IN  IF k_num > 1 THEN k_num ELSE 1

\* The false-positive rates tried, in thousandths, and f64::ln of the valid ones
\* in millionths.
FpRates == {0, 10, 500, 1000}

LnMicro(fp_p) ==
    CASE fp_p = 10 -> -4605170
      [] fp_p = 500 -> -693147

compute_bitmap_size_ok(items_count, fp_p) ==
    items_count > 0 /\ fp_p > 0 /\ fp_p < 1000

compute_bitmap_size(items_count, fp_p) ==
    CeilDiv(items_count * (0 - LnMicro(fp_p)), Ln2Sq8Micro)

\* The assertion without its bitmap_size half.
new_ok_items_only(bitmap_size, items_count) == items_count > 0

new_ok(bitmap_size, items_count) == bitmap_size > 0 /\ items_count > 0

\* The bitmap allocated with every bit set.
new_all_set(bitmap_size, items_count) ==
    LET bitmap_bits == bitmap_size * 8
    IN  [bitmap |-> BitVecFromElem(bitmap_bits, TRUE),
         bitmap_bits |-> bitmap_bits,
         k_num |-> optimal_k_num(bitmap_bits, items_count),
         sips |-> <<sip_new, sip_new>>]

new(bitmap_size, items_count) ==
    LET bitmap_bits == bitmap_size * 8
    IN  [bitmap |-> BitVecFromElem(bitmap_bits, FALSE),
         bitmap_bits |-> bitmap_bits,
         k_num |-> optimal_k_num(bitmap_bits, items_count),
         sips |-> <<sip_new, sip_new>>]

\* The rebuilt filter keyed differently from the one serialized.
from_bytes_rekeyed(bytes, k_num) ==
    [bitmap |-> BitVecFromBytes(bytes),
     bitmap_bits |-> Len(bytes) * 8,
     k_num |-> k_num,
     sips |-> <<OtherKey, OtherKey>>]

from_bytes(bytes, k_num) ==
    [bitmap |-> BitVecFromBytes(bytes),
     bitmap_bits |-> Len(bytes) * 8,
     k_num |-> k_num,
     sips |-> <<sip_new, sip_new>>]

to_bytes(self) == <<BitVecToBytes(self.bitmap), self.k_num>>

number_of_bits(self) == self.bitmap_bits

number_of_hash_functions(self) == self.k_num

\* The derivation without its % 0xffffffffffffffc5.
bloom_hash_no_rem(self, hashes, item, k_i) ==
    IF k_i < 2
    THEN LET hash == SipHash(self.sips[k_i + 1], item)
         IN  [hash |-> hash, hashes |-> [hashes EXCEPT ![k_i + 1] = hash], evals |-> 1]
    ELSE [hash |-> wrapping_add(hashes[1], wrapping_mul(k_i, hashes[2])),
          hashes |-> hashes, evals |-> 0]

\* Round k_i of the double hashing: the hash, the updated cache, and the number
\* of SipHash evaluations made (item.hash(sip); sip.finish()).
bloom_hash(self, hashes, item, k_i) ==
    IF k_i < 2
    THEN LET hash == SipHash(self.sips[k_i + 1], item)
         IN  [hash |-> hash, hashes |-> [hashes EXCEPT ![k_i + 1] = hash], evals |-> 1]
    ELSE [hash |-> wrapping_add(hashes[1], RemHashPrime(wrapping_mul(k_i, hashes[2]))),
          hashes |-> hashes, evals |-> 0]

\* A loop result with the hash of one more round put in front of those of the
\* rounds after it.
Hashed(h, r) == [r EXCEPT !.hashed = <<h.hash>> \o @, !.evals = @ + h.evals]

ZeroHashes == << <<0, 0, 0, 0>>, <<0, 0, 0, 0>> >>

\* The loop of set from round k_i on: the bitmap it leaves, whether it
\* panicked (remainder by zero, or an index past the end of the bitmap), the
\* hashes bloom_hash returned round by round, and the SipHash evaluations made.
RECURSIVE set_from(_, _, _, _, _)
set_from(self, bitmap, hashes, item, k_i) ==
    IF k_i >= self.k_num
    THEN [bitmap |-> bitmap, panic |-> FALSE, hashed |-> <<>>, evals |-> 0]
    ELSE IF self.bitmap_bits = 0
    THEN [bitmap |-> bitmap, panic |-> TRUE, hashed |-> <<>>, evals |-> 0]
    ELSE LET h == bloom_hash(self, hashes, item, k_i)
             bit_offset == U64Rem(h.hash, self.bitmap_bits)
         IN  IF ~BitVecInRange(bitmap, bit_offset)
             THEN Hashed(h, [bitmap |-> bitmap, panic |-> TRUE, hashed |-> <<>>, evals |-> 0])
             ELSE Hashed(h, set_from(self, BitVecSet(bitmap, bit_offset, TRUE), h.hashes,
                                     item, k_i + 1))

\* The loop one round short.
set_short(self, item) ==
    set_from([self EXCEPT !.k_num = self.k_num - 1], self.bitmap, ZeroHashes, item, 0)

set(self, item) == set_from(self, self.bitmap, ZeroHashes, item, 0)

\* The loop of check from round k_i on: it returns at the first unset bit.
RECURSIVE check_from(_, _, _, _)
check_from(self, hashes, item, k_i) ==
    IF k_i >= self.k_num
    THEN [ret |-> TRUE, panic |-> FALSE, hashed |-> <<>>, evals |-> 0]
    ELSE IF self.bitmap_bits = 0
    THEN [ret |-> FALSE, panic |-> TRUE, hashed |-> <<>>, evals |-> 0]
    ELSE LET h == bloom_hash(self, hashes, item, k_i)
             bit_offset == U64Rem(h.hash, self.bitmap_bits)
         IN  IF ~BitVecInRange(self.bitmap, bit_offset)
             THEN Hashed(h, [ret |-> FALSE, panic |-> TRUE, hashed |-> <<>>, evals |-> 0])
             ELSE IF BitVecGet(self.bitmap, bit_offset) = FALSE
             THEN Hashed(h, [ret |-> FALSE, panic |-> FALSE, hashed |-> <<>>, evals |-> 0])
             ELSE Hashed(h, check_from(self, h.hashes, item, k_i + 1))

\* The loop started at round 1.
check_from_one(self, item) == check_from(self, ZeroHashes, item, 1)

check(self, item) == check_from(self, ZeroHashes, item, 0)

\* The loop of check_and_set from round k_i on.
RECURSIVE check_and_set_from(_, _, _, _, _, _)
check_and_set_from(self, bitmap, hashes, found, item, k_i) ==
    IF k_i >= self.k_num
    THEN [bitmap |-> bitmap, ret |-> found, panic |-> FALSE, hashed |-> <<>>, evals |-> 0]
    ELSE IF self.bitmap_bits = 0
    THEN [bitmap |-> bitmap, ret |-> found, panic |-> TRUE, hashed |-> <<>>, evals |-> 0]
    ELSE LET h == bloom_hash(self, hashes, item, k_i)
             bit_offset == U64Rem(h.hash, self.bitmap_bits)
         IN  IF ~BitVecInRange(bitmap, bit_offset)
             THEN Hashed(h, [bitmap |-> bitmap, ret |-> found, panic |-> TRUE,
                             hashed |-> <<>>, evals |-> 0])
             ELSE IF BitVecGet(bitmap, bit_offset) = FALSE
             THEN Hashed(h, check_and_set_from(self, BitVecSet(bitmap, bit_offset, TRUE),
                                               h.hashes, FALSE, item, k_i + 1))
             ELSE Hashed(h, check_and_set_from(self, bitmap, h.hashes, found, item, k_i + 1))

\* The loop returning at the first unset bit, as check does, once it has set it.
RECURSIVE check_and_set_first_from(_, _, _, _, _)
check_and_set_first_from(self, bitmap, hashes, item, k_i) ==
    IF k_i >= self.k_num THEN [bitmap |-> bitmap, ret |-> TRUE, panic |-> FALSE]
    ELSE IF self.bitmap_bits = 0 THEN [bitmap |-> bitmap, ret |-> TRUE, panic |-> TRUE]
    ELSE LET h == bloom_hash(self, hashes, item, k_i)
             bit_offset == U64Rem(h.hash, self.bitmap_bits)
         IN  IF BitVecGet(bitmap, bit_offset) = FALSE
             THEN [bitmap |-> BitVecSet(bitmap, bit_offset, TRUE), ret |-> FALSE,
                   panic |-> FALSE]
             ELSE check_and_set_first_from(self, bitmap, h.hashes, item, k_i + 1)

check_and_set_first(self, item) ==
    check_and_set_first_from(self, self.bitmap, ZeroHashes, item, 0)

\* The loop without its self.bitmap.set call.
check_and_set_unset(self, item) ==
    [bitmap |-> self.bitmap,
     ret |-> check_from(self, ZeroHashes, item, 0).ret,
     panic |-> check_from(self, ZeroHashes, item, 0).panic]

check_and_set(self, item) ==
    check_and_set_from(self, self.bitmap, ZeroHashes, TRUE, item, 0)

\* A clear that leaves the bits as they are.
clear_nothing(self) == self

clear(self) == [self EXCEPT !.bitmap = BitVecClear(self.bitmap)]

\* ------------------------------------------------------------------ inputs
ByteVals == {0, 1, 255}

ByteSeqs == UNION {[1..n -> ByteVals] : n \in 0..MaxBytesLen}

\* ------------------------------------------------------------------ actions
Init ==
    /\ digest \in [SipKeys -> [Items -> HashVals]]
    /\ \A x \in Items : digest[OtherKey][x] = Rekeyed(digest[ZeroKey][x])
    /\ bloom = NoBloom
    /\ orig = NoBloom
    /\ op = "none"
    /\ arg = <<>>
    /\ ret = <<>>
    /\ aborted = FALSE
    /\ built = "none"
    /\ phase = "none"
    /\ added = {}

New(bitmap_size, items_count) ==
    /\ bloom = NoBloom
    /\ op' = "new"
    /\ arg' = <<bitmap_size, items_count>>
    /\ ret' = <<>>
    /\ IF new_ok(bitmap_size, items_count)
       THEN /\ bloom' = new(bitmap_size, items_count)
            /\ aborted' = FALSE
            /\ built' = "new"
            /\ phase' = "fresh"
       ELSE /\ aborted' = TRUE
            /\ UNCHANGED <<bloom, built, phase>>
    /\ UNCHANGED <<digest, orig, added>>

NewForFpRate(items_count, fp_p) ==
    /\ bloom = NoBloom
    /\ op' = "new_for_fp_rate"
    /\ arg' = <<items_count, fp_p>>
    /\ ret' = <<>>
    /\ IF /\ compute_bitmap_size_ok(items_count, fp_p)
          /\ new_ok(compute_bitmap_size(items_count, fp_p), items_count)
       THEN /\ bloom' = new(compute_bitmap_size(items_count, fp_p), items_count)
            /\ aborted' = FALSE
            /\ built' = "new"
            /\ phase' = "fresh"
       ELSE /\ aborted' = TRUE
            /\ UNCHANGED <<bloom, built, phase>>
    /\ UNCHANGED <<digest, orig, added>>

FromBytes(bytes, k_num) ==
    /\ bloom = NoBloom
    /\ op' = "from_bytes"
    /\ arg' = <<bytes, k_num>>
    /\ ret' = <<>>
    /\ bloom' = from_bytes(bytes, k_num)
    /\ aborted' = FALSE
    /\ built' = "from_bytes"
    /\ phase' = "fresh"
    /\ UNCHANGED <<digest, orig, added>>

\* bloom_recreate: the filter is rebuilt from the bytes to_bytes just returned.
Recreate ==
    /\ bloom # NoBloom
    /\ op = "to_bytes"
    /\ op' = "recreate"
    /\ arg' = ret
    /\ ret' = <<>>
    /\ orig' = bloom
    /\ bloom' = from_bytes(ret[1], ret[2])
    /\ aborted' = FALSE
    /\ built' = "from_bytes"
    /\ phase' = "fresh"
    /\ added' = {}
    /\ UNCHANGED digest

\* A second filter is built from the bytes and k_num the first was built from.
FromBytesTwin ==
    /\ bloom # NoBloom
    /\ op = "from_bytes"
    /\ op' = "from_bytes_twin"
    /\ arg' = arg
    /\ ret' = <<>>
    /\ orig' = bloom
    /\ bloom' = from_bytes(arg[1], arg[2])
    /\ aborted' = FALSE
    /\ built' = "from_bytes"
    /\ phase' = "fresh"
    /\ added' = {}
    /\ UNCHANGED digest

Set(item) ==
    /\ bloom # NoBloom
    /\ LET r == set(bloom, item)
       IN  /\ bloom' = [bloom EXCEPT !.bitmap = r.bitmap]
           /\ aborted' = r.panic
           /\ added' = IF r.panic THEN added ELSE added \cup {item}
           /\ phase' = IF r.panic THEN phase ELSE "used"
    /\ op' = "set"
    /\ arg' = <<item>>
    /\ ret' = <<>>
    /\ orig' = NoBloom
    /\ UNCHANGED <<digest, built>>

\* A check that sets the bits it finds unset.
CheckWriting(item) ==
    /\ bloom # NoBloom
    /\ LET r == check(bloom, item)
       IN  /\ ret' = IF r.panic THEN <<>> ELSE <<r.ret>>
           /\ aborted' = r.panic
    /\ bloom' = [bloom EXCEPT !.bitmap = check_and_set(bloom, item).bitmap]
    /\ op' = "check"
    /\ arg' = <<item>>
    /\ orig' = NoBloom
    /\ UNCHANGED <<digest, built, phase, added>>

Check(item) ==
    /\ bloom # NoBloom
    /\ LET r == check(bloom, item)
       IN  /\ ret' = IF r.panic THEN <<>> ELSE <<r.ret>>
           /\ aborted' = r.panic
    /\ op' = "check"
    /\ arg' = <<item>>
    /\ orig' = NoBloom
    /\ UNCHANGED <<digest, bloom, built, phase, added>>

CheckAndSet(item) ==
    /\ bloom # NoBloom
    /\ LET r == check_and_set(bloom, item)
       IN  /\ bloom' = [bloom EXCEPT !.bitmap = r.bitmap]
           /\ ret' = IF r.panic THEN <<>> ELSE <<r.ret>>
           /\ aborted' = r.panic
           /\ phase' = IF r.panic THEN phase ELSE "used"
    /\ op' = "check_and_set"
    /\ arg' = <<item>>
    /\ orig' = NoBloom
    /\ UNCHANGED <<digest, built, added>>

Clear ==
    /\ bloom # NoBloom
    /\ bloom' = clear(bloom)
    /\ op' = "clear"
    /\ arg' = <<>>
    /\ ret' = <<>>
    /\ aborted' = FALSE
    /\ phase' = "cleared"
    /\ added' = {}
    /\ orig' = NoBloom
    /\ UNCHANGED <<digest, built>>

ToBytes ==
    /\ bloom # NoBloom
    /\ op' = "to_bytes"
    /\ arg' = <<>>
    /\ ret' = to_bytes(bloom)
    /\ aborted' = FALSE
    /\ orig' = NoBloom
    /\ UNCHANGED <<digest, bloom, built, phase, added>>

NumberOfBits ==
    /\ bloom # NoBloom
    /\ op' = "number_of_bits"
    /\ arg' = <<>>
    /\ ret' = <<number_of_bits(bloom)>>
    /\ aborted' = FALSE
    /\ orig' = NoBloom
    /\ UNCHANGED <<digest, bloom, built, phase, added>>

NumberOfHashFunctions ==
    /\ bloom # NoBloom
    /\ op' = "number_of_hash_functions"
    /\ arg' = <<>>
    /\ ret' = <<number_of_hash_functions(bloom)>>
    /\ aborted' = FALSE
    /\ orig' = NoBloom
    /\ UNCHANGED <<digest, bloom, built, phase, added>>

Next ==
    \/ \E bitmap_size \in 0..MaxBitmapSize, items_count \in 0..MaxItemsCount :
           New(bitmap_size, items_count)
    \/ \E items_count \in 0..MaxItemsCount, fp_p \in FpRates :
           NewForFpRate(items_count, fp_p)
    \/ \E bytes \in ByteSeqs, k_num \in 0..MaxKNum : FromBytes(bytes, k_num)
    \/ Recreate
    \/ FromBytesTwin
    \/ \E item \in Items : Set(item)
    \/ \E item \in Items : Check(item)
    \/ \E item \in Items : CheckAndSet(item)
    \/ Clear
    \/ ToBytes
    \/ NumberOfBits
    \/ NumberOfHashFunctions

Spec == Init /\ [][Next]_vars

\* ------------------------------------------------------------------ claims
\* The call returned b.
Returned(r, b) == ~r.panic /\ r.ret = b

AllItemsAbsent(self) == \A x \in Items : Returned(check(self, x), FALSE)

AllBitsUnset(self) == \A i \in DOMAIN self.bitmap : self.bitmap[i] = FALSE

\* C1: no false negatives. Every item passed to set since the filter was
\* built or last cleared is reported present by check, whatever else was set,
\* checked or check_and_set since; a check call on such an item returns true.
NoFalseNegatives ==
    /\ \A x \in added : Returned(check(bloom, x), TRUE)
    /\ (op = "check" /\ arg[1] \in added) => (~aborted /\ ret = <<TRUE>>)

NoFalseNegativesWitness ==
    /\ built = "new"
    /\ op = "check"
    /\ added = Items
    /\ ret = <<TRUE>>
    /\ bloom.k_num >= 3

\* C2: check_and_set(x) is check(x) followed by set(x). Its return value is
\* what check(x) returns on the bitmap before the call, and the bitmap after the
\* call is the one set(x) leaves; it panics exactly when they do.
CheckAndSetIsCheckThenSet ==
    [][op' = "check_and_set" =>
        LET c == check(bloom, arg'[1])
            s == set(bloom, arg'[1])
        IN  /\ aborted' = (c.panic \/ s.panic)
            /\ ~aborted' => /\ ret' = <<c.ret>>
                            /\ bloom'.bitmap = s.bitmap]_vars

CheckAndSetIsCheckThenSetWitness ==
    /\ op = "check_and_set"
    /\ ret = <<FALSE>>
    /\ added # {}
    /\ arg[1] \notin added
    /\ bloom.k_num >= 3
    /\ ~AllItemsAbsent(bloom)

\* C3: on a filter built by Bloom::new with nothing set yet, check_and_set(x)
\* returns false; and in the state a check_and_set(x) leaves, the call
\* check_and_set(x) on the same item returns true (and changes no bit).
CheckAndSetFirstThenSecond ==
    /\ [][(op' = "check_and_set" /\ built = "new" /\ phase = "fresh") =>
            (~aborted' /\ ret' = <<FALSE>>)]_vars
    /\ []((op = "check_and_set" /\ built = "new") =>
            /\ ~aborted
            /\ Returned(check_and_set(bloom, arg[1]), TRUE)
            /\ check_and_set(bloom, arg[1]).bitmap = bloom.bitmap)

CheckAndSetFirstThenSecondWitness ==
    /\ built = "new"
    /\ op = "check_and_set"
    /\ ret = <<TRUE>>
    /\ added = {}
    /\ bloom.bitmap = set(clear(bloom), arg[1]).bitmap

\* C4: clear resets membership. After clear() on a filter built by Bloom::new,
\* and until the next set or check_and_set, every bit is unset and check
\* returns false for every item.
ClearResetsMembership ==
    (built = "new" /\ phase = "cleared") => (AllBitsUnset(bloom) /\ AllItemsAbsent(bloom))

ClearResetsMembershipWitness ==
    /\ built = "new"
    /\ phase = "cleared"
    /\ op = "check"
    /\ ret = <<FALSE>>

\* C5: round-trip membership. The filter rebuilt by from_bytes from the output
\* of to_bytes answers check as the serialized filter does, for every item.
RoundTripMembership ==
    op = "recreate" =>
        \A x \in Items : /\ check(bloom, x).ret = check(orig, x).ret
                         /\ check(bloom, x).panic = check(orig, x).panic

RoundTripMembershipWitness ==
    /\ op = "recreate"
    /\ orig.k_num >= 3
    /\ \E x \in Items : check(bloom, x).ret
    /\ \E y \in Items : ~check(bloom, y).ret

\* C6: the bitmap round trip is bit-exact. to_bytes returns bitmap_bits / 8
\* bytes and k_num; the filter rebuilt from them has the same number_of_bits,
\* number_of_hash_functions and bits; from_bytes(b, k).to_bytes() is (b, k).
BitExactRoundTrip ==
    /\ op = "to_bytes" =>
          /\ Len(ret[1]) = bloom.bitmap_bits \div 8
          /\ Len(ret[1]) * 8 = bloom.bitmap_bits
          /\ ret[2] = bloom.k_num
    /\ op = "recreate" =>
          /\ number_of_bits(bloom) = number_of_bits(orig)
          /\ number_of_hash_functions(bloom) = number_of_hash_functions(orig)
          /\ bloom.bitmap = orig.bitmap
    /\ op \in {"from_bytes", "from_bytes_twin", "recreate"} => to_bytes(bloom) = arg

BitExactRoundTripWitness ==
    /\ op = "recreate"
    /\ \E i \in DOMAIN bloom.bitmap : bloom.bitmap[i]
    /\ \E i \in DOMAIN bloom.bitmap : ~bloom.bitmap[i]

\* C7: fresh-filter negative. On a filter built by Bloom::new, before any set or
\* check_and_set, check returns false for every item.
FreshFilterNegative ==
    (built = "new" /\ phase = "fresh") => AllItemsAbsent(bloom)

FreshFilterNegativeWitness ==
    /\ built = "new"
    /\ phase = "fresh"
    /\ op = "check"
    /\ ret = <<FALSE>>

\* C8: construction preconditions. Bloom::new aborts exactly when bitmap_size
\* or items_count is 0, new_for_fp_rate unless items_count > 0 and
\* 0 < rate < 1, and an aborted call leaves no filter; when new returns, the
\* filter has 8 * bitmap_size bits, all unset, and k_num is the least integer
\* that is at least 1 and at least bitmap_bits / items_count * ln 2.
ConstructionPreconditions ==
    /\ op = "new" =>
          /\ aborted = (arg[1] = 0 \/ arg[2] = 0)
          /\ aborted => bloom = NoBloom
          /\ ~aborted =>
                /\ number_of_bits(bloom) = 8 * arg[1]
                /\ Len(bloom.bitmap) = 8 * arg[1]
                /\ AllBitsUnset(bloom)
                /\ bloom.k_num >= 1
                /\ bloom.k_num * arg[2] * 1000000 >= bloom.bitmap_bits * Ln2Micro
                /\ bloom.k_num > 1 =>
                      (bloom.k_num - 1) * arg[2] * 1000000 < bloom.bitmap_bits * Ln2Micro
    /\ op = "new_for_fp_rate" =>
          /\ aborted = ~(arg[1] > 0 /\ arg[2] > 0 /\ arg[2] < 1000)
          /\ aborted => bloom = NoBloom
          /\ ~aborted => (bloom # NoBloom /\ AllBitsUnset(bloom))

ConstructionPreconditionsWitness ==
    /\ op = "new"
    /\ ~aborted
    /\ arg = <<2, 3>>
    /\ bloom.k_num = 4

\* C9: hash_rounds is at least 1 for every filter any public constructor
\* produced, in every state reachable from it.
HashRoundsAtLeastOne ==
    bloom # NoBloom => number_of_hash_functions(bloom) >= 1

\* C10: two filters built by from_bytes from the same bytes and the same k_num
\* do not produce identical hash outputs: some item hashes differently in some
\* round under the two filters' seeds.
TwinSeedsDiffer ==
    op = "from_bytes_twin" =>
        \E x \in Items, k_i \in 0..1 :
            bloom_hash(bloom, ZeroHashes, x, k_i).hash # bloom_hash(orig, ZeroHashes, x, k_i).hash

Queries == {"check", "to_bytes", "number_of_bits", "number_of_hash_functions"}

Calls == Queries \cup {"set", "check_and_set", "clear"}

\* C11: bit_count is fixed and matches the store. number_of_bits() is the
\* number of bits of the bitmap in every state; set, check, check_and_set,
\* clear, to_bytes and the getters leave bitmap_bits, the bitmap's length, k_num
\* and the seeds as they were; and on a cleared filter a set(x) that returns
\* makes check(x) return true.
BitCountFixed ==
    /\ [](bloom # NoBloom => number_of_bits(bloom) = Len(bloom.bitmap))
    /\ [][op' \in Calls =>
            /\ number_of_bits(bloom') = number_of_bits(bloom)
            /\ Len(bloom'.bitmap) = Len(bloom.bitmap)
            /\ number_of_hash_functions(bloom') = number_of_hash_functions(bloom)
            /\ bloom'.sips = bloom.sips]_vars
    /\ [](phase = "cleared" =>
            \A x \in Items :
                LET s == set(bloom, x)
                IN  ~s.panic => Returned(check([bloom EXCEPT !.bitmap = s.bitmap], x), TRUE))

BitCountFixedWitness ==
    /\ built = "new"
    /\ op = "clear"
    /\ phase = "cleared"
    /\ number_of_bits(bloom) = 16
    /\ Len(bloom.bitmap) = 16
    /\ bloom.k_num >= 3

\* C12: set is idempotent. In the state a set(x) leaves, a second set(x)
\* returns and leaves every bit as it is (set writes nothing but bits).
SetIdempotent ==
    (op = "set" /\ ~aborted) =>
        LET s == set(bloom, arg[1])
        IN  ~s.panic /\ s.bitmap = bloom.bitmap

SetIdempotentWitness ==
    /\ built = "new"
    /\ op = "set"
    /\ ~aborted
    /\ bloom.k_num >= 3
    /\ ~AllBitsUnset(bloom)

\* (h0 + ((i * h1 mod 2^64) mod (2^64 - 59))) mod 2^64 for the digests of
\* HashVals and 2 <= i <= 58, in closed form: the middle term is 5 i for
\* h1 = 5, (i mod 2) 2^63 + 3 i for h1 = 2^63 + 3 and 59 - i for h1 = 2^64 - 1.
DerivedTerm(h1, i) ==
    CASE h1 = <<0, 0, 0, 5>> -> <<0, 5 * i>>
      [] h1 = <<32768, 0, 0, 3>> -> <<32768 * (i % 2), 3 * i>>
      [] h1 = <<65535, 65535, 65535, 65535>> -> <<0, 59 - i>>

ExpectedDerived(h0, h1, i) ==
    LET t == DerivedTerm(h1, i)
    IN  CASE h0 = <<0, 0, 0, 5>> -> <<t[1], 0, 0, t[2] + 5>>
          [] h0 = <<32768, 0, 0, 3>> -> <<(32768 + t[1]) % 65536, 0, 0, t[2] + 3>>
          [] h0 = <<65535, 65535, 65535, 65535>> -> <<t[1], 0, 0, t[2] - 1>>

\* The hashes one call derived for item x, round by round, and the SipHash
\* evaluations it made.
DoubleHashed(self, x, r) ==
    /\ Len(r.hashed) <= self.k_num
    /\ r.evals <= 2
    /\ r.evals = (IF Len(r.hashed) < 2 THEN Len(r.hashed) ELSE 2)
    /\ Len(r.hashed) >= 1 => r.hashed[1] = SipHash(self.sips[1], x)
    /\ Len(r.hashed) >= 2 => r.hashed[2] = SipHash(self.sips[2], x)
    /\ \A n \in 3..Len(r.hashed) :
           r.hashed[n] = ExpectedDerived(SipHash(self.sips[1], x),
                                         SipHash(self.sips[2], x), n - 1)

\* C13: double hashing. In every set, check and check_and_set call, rounds 0
\* and 1 are the keyed hashes of the item under seed a and seed b, every later
\* round i is (h0 + ((i * h1 mod 2^64) mod (2^64 - 59))) mod 2^64 of those two,
\* at most two keyed hashes are evaluated, and set and check_and_set run all
\* k_num rounds while check may stop early.
DoubleHashing ==
    bloom # NoBloom =>
        \A x \in Items :
            LET s == set(bloom, x)
                c == check(bloom, x)
                cs == check_and_set(bloom, x)
            IN  /\ DoubleHashed(bloom, x, s)
                /\ DoubleHashed(bloom, x, c)
                /\ DoubleHashed(bloom, x, cs)
                /\ ~s.panic => Len(s.hashed) = bloom.k_num
                /\ ~cs.panic => Len(cs.hashed) = bloom.k_num
                /\ Returned(c, TRUE) => Len(c.hashed) = bloom.k_num

DoubleHashingWitness ==
    /\ op = "check"
    /\ ret = <<TRUE>>
    /\ bloom.k_num >= 4
    /\ SipHash(bloom.sips[2], arg[1]) = <<65535, 65535, 65535, 65535>>
    /\ \E y \in Items : LET c == check(bloom, y)
                        IN  Returned(c, FALSE) /\ Len(c.hashed) < bloom.k_num

\* C14: read-only queries. check, to_bytes, number_of_bits and
\* number_of_hash_functions leave the bitmap, bitmap_bits, k_num and the seeds
\* as they were, whatever check returns and however many rounds it runs.
ReadOnlyQueries ==
    [][op' \in Queries => bloom' = bloom]_vars

ReadOnlyQueriesWitness ==
    /\ op = "check"
    /\ ret = <<FALSE>>
    /\ phase = "used"
    /\ LET c == check(bloom, arg[1])
       IN  Len(c.hashed) > 2 /\ Len(c.hashed) < bloom.k_num

\* C15: no operation aborts on a constructed filter. Every set, check and
\* check_and_set call on a filter any public constructor returned computes its
\* bit offsets and returns.
NoOperationAborts ==
    op \in {"set", "check", "check_and_set"} => ~aborted

\* The bit positions set(x) derives for item x.
PositionsOf(self, hashed) ==
    {U64Rem(hashed[n], self.bitmap_bits) : n \in 1..Len(hashed)}

Positions(self, x) == PositionsOf(self, set(self, x).hashed)

\* C16: the bitmap grows monotonically between clears. No call but clear
\* unsets a bit, and a bit changes only in set(x) or check_and_set(x) and
\* only at one of the at most k_num positions derived for x.
MonotoneBitmap ==
    [][op' \in (Calls \ {"clear"}) =>
        \/ bloom'.bitmap = bloom.bitmap
        \/ /\ op' \in {"set", "check_and_set"}
           /\ LET positions == Positions(bloom, arg'[1])
              IN  /\ Cardinality(positions) <= bloom.k_num
                  /\ \A i \in DOMAIN bloom.bitmap :
                         /\ bloom.bitmap[i] => bloom'.bitmap[i]
                         /\ bloom'.bitmap[i] # bloom.bitmap[i] => (i - 1) \in positions]_vars

MonotoneBitmapWitness ==
    /\ op = "set"
    /\ ~aborted
    /\ bloom.k_num >= 3
    /\ LET positions == Positions(bloom, arg[1])
       IN  \E i \in DOMAIN bloom.bitmap : bloom.bitmap[i] /\ (i - 1) \notin positions

\* s is the first Len(s) elements of t.
IsPrefix(s, t) == Len(s) <= Len(t) /\ \A n \in 1..Len(s) : s[n] = t[n]

\* C17: position derivation is deterministic and state-independent. For every
\* item, set and check_and_set derive the same hashes round by round and check
\* derives a prefix of them; they are the same on the cleared and on the full
\* bitmap; and check returns true exactly when every position set would set
\* is set.
PositionsDeterministic ==
    bloom # NoBloom =>
        \A x \in Items :
            LET s == set(bloom, x)
                c == check(bloom, x)
                full == [bloom EXCEPT !.bitmap = BitVecFromElem(Len(bloom.bitmap), TRUE)]
            IN  /\ check_and_set(bloom, x).hashed = s.hashed
                /\ IsPrefix(c.hashed, s.hashed)
                /\ set(clear(bloom), x).hashed = s.hashed
                /\ check(full, x).hashed = s.hashed
                /\ c.panic = s.panic
                /\ ~c.panic =>
                      (c.ret = \A p \in PositionsOf(bloom, s.hashed) :
                                   BitVecGet(bloom.bitmap, p))

PositionsDeterministicWitness ==
    /\ built = "new"
    /\ op = "check"
    /\ ret = <<TRUE>>
    /\ phase = "used"
    /\ bloom.k_num >= 3
    /\ \E y \in Items : Returned(check(bloom, y), FALSE)

====
